---- MODULE Spec2Model ----
(***************************************************************************)
(* Resume-Hub: the Express handlers of the server over the MongoDB         *)
(* collections `users` and `resumes`.  Every handler is an async function: *)
(* the store calls it awaits are its atomic steps, and handlers of         *)
(* different requests interleave between them.  A request is issued        *)
(* together with its first store call; the store call after an await is a  *)
(* later step of the same request slot.  `response` is what the step just  *)
(* taken sent to its caller (for the startup routine: the line it logged), *)
(* NoResponse when it sent nothing.                                        *)
(***************************************************************************)
EXTENDS Integers, FiniteSets, Sequences, TLC

\* ------------------------------------------------------------------ bounds
\* ObjectIds the store hands out to users / to resumes: 1..MaxUsers, 1..MaxResumes.
MaxUsers == 2
MaxResumes == 2

\* ------------------------------------------------------------------ inputs
Procs == {"p1", "p2"}
DefaultAdminEmail == "admin@resumehub.com"
DefaultAdminPassword == "admin123"
DefaultAdminName == "Admin User"
Emails == {DefaultAdminEmail, "ann@x.org"}
\* passwords chosen for new accounts, and those tried at login
Passwords == {"pw"}
LoginPasswords == Passwords \cup {DefaultAdminPassword}
Names == {"Ann"}
FileNames == {"cv.pdf"}
\* what `new Date()` may read
Times == {1}
\* per-call random salts of bcrypt.hash
Salts == {"s1"}
\* an id as it arrives in a route parameter: 0 stands for a string that is
\* no ObjectId (new ObjectId(id) throws), 1.. for well-formed ones
UserIdParams == 0..MaxUsers
ResumeIdParams == 0..MaxResumes
\* the userId field of an upload: the id of a user, who may exist or not
OwnerIds == {1, 2}
\* a userId that names a property every JavaScript object inherits from
\* Object.prototype: -1 stands for the string "constructor"
InheritedKeys == {-1}
\* a missing or empty body field (falsy in JavaScript)
Absent == ""

VARIABLES users, resumes, nextUserId, nextResumeId, req, response

vars == <<users, resumes, nextUserId, nextResumeId, req, response>>

\* ------------------------------------------------------------ collaborators
\* bcrypt.hash(password, 10): a salted one-way credential
BcryptHash(password, salt) == [salt |-> salt, digest |-> <<salt, password>>]

\* bcrypt.compare(password, hash): re-hash with the stored salt and compare
BcryptCompare(password, hash) == BcryptHash(password, hash.salt).digest = hash.digest

\* new ObjectId(id) throws unless id is a well-formed identifier
ObjectIdThrows(id) == id = 0

\* a || b on strings
OrDefault(a, b) == IF a = Absent THEN b ELSE a

\* users.findOne({ email }): the matching documents (at most one, by the index)
FindUsersByEmail(email) == {u \in users : u.email = email}

\* users.findOne({ _id })
FindUsersById(id) == {u \in users : u._id = id}

\* users.findOne({ role: 'admin' })
FindAdmins == {u \in users : u.role = "admin"}

\* (mutant) a users collection without the unique index
NoUniqueIndex(doc) == FALSE

\* the unique index on users.email rejects the insert (E11000)
DuplicateKey(doc) == \E u \in users : u.email = doc.email

\* resumes matching { _id }
FindResumesById(id) == {r \in resumes : r._id = id}

\* resumes matching { userId }
FindResumesByUserId(id) == {r \in resumes : r.userId = id}

\* (mutant) the user document as stored, password included
WithPassword(user) == user

\* const { password: _, ...userWithoutPassword } = user
WithoutPassword(user) == [f \in DOMAIN user \ {"password"} |-> user[f]]

\* (mutant) the update sets the flag and forgets the timestamp
SetArchivedFlagOnly(r, now) ==
  [f \in DOMAIN r \cup {"archived"} |-> IF f = "archived" THEN TRUE ELSE r[f]]

\* $set: { archived: true, archivedAt: new Date() }
SetArchived(r, now) ==
  [f \in DOMAIN r \cup {"archived", "archivedAt"} |->
     IF f = "archived" THEN TRUE
     ELSE IF f = "archivedAt" THEN now
     ELSE r[f]]

\* (mutant) the update clears the flag instead of removing the fields
ClearArchivedFlag(r) ==
  [f \in DOMAIN r \cup {"archived"} |-> IF f = "archived" THEN FALSE ELSE r[f]]

\* $unset: { archived: "", archivedAt: "" }
UnsetArchived(r) == [f \in DOMAIN r \ {"archived", "archivedAt"} |-> r[f]]

\* (mutant) the filter { archived: false }: misses resumes without the field
ArchivedIsFalse(r) == IF "archived" \in DOMAIN r THEN r.archived = FALSE ELSE FALSE

\* the filter { archived: { $ne: true } }: field missing, or not true
NotArchived(r) == IF "archived" \in DOMAIN r THEN r.archived # TRUE ELSE TRUE

\* the filter { archived: true }
IsArchived(r) == IF "archived" \in DOMAIN r THEN r.archived = TRUE ELSE FALSE

\* ------------------------------------------------------------ request slots
Idle == [op |-> "idle", pc |-> "idle"]

NoResponse == [op |-> "none", status |-> 0]

Free(p) == req[p].pc = "idle"

\* slot p awaits its next store call, as record r
Await(p, r) ==
  /\ req' = [req EXCEPT ![p] = r]
  /\ response' = NoResponse

\* slot p sends response r and its handler returns
Respond(p, r) ==
  /\ req' = [req EXCEPT ![p] = Idle]
  /\ response' = r

Init ==
  /\ users = {}
  /\ resumes = {}
  /\ nextUserId = 1
  /\ nextResumeId = 1
  /\ req = [p \in Procs |-> Idle]
  /\ response = NoResponse

\* ------------------------------------------------------------ registration
\* (mutant) registration without the existence check
RegisterNoCheck(p) ==
  /\ Free(p)
  /\ \E name \in Names, email \in Emails, password \in Passwords :
       Await(p, [op |-> "register", pc |-> "insert", name |-> name,
                 email |-> email, password |-> password])
  /\ UNCHANGED <<users, resumes, nextUserId, nextResumeId>>

\* POST /api/users/register, up to the await of findOne
Register(p) ==
  /\ Free(p)
  /\ \E name \in Names, email \in Emails, password \in Passwords :
       IF FindUsersByEmail(email) # {}
       THEN Respond(p, [op |-> "register", email |-> email, status |-> 400,
                        message |-> "User with this email already exists"])
       ELSE Await(p, [op |-> "register", pc |-> "insert", name |-> name,
                      email |-> email, password |-> password])
  /\ UNCHANGED <<users, resumes, nextUserId, nextResumeId>>

\* ... bcrypt.hash, insertOne and the response
RegisterInsert(p) ==
  /\ req[p].op = "register" /\ req[p].pc = "insert"
  /\ \E salt \in Salts, now \in Times :
       LET call == [op |-> "register", email |-> req[p].email]
           newUser == [name |-> req[p].name, email |-> req[p].email,
                       password |-> BcryptHash(req[p].password, salt),
                       role |-> "user", createdAt |-> now]
           inserted == newUser @@ [_id |-> nextUserId]
       IN IF DuplicateKey(newUser)
          THEN /\ Respond(p, call @@ [status |-> 500,
                            message |-> "Server error during registration"])
               /\ UNCHANGED <<users, nextUserId>>
          ELSE /\ nextUserId <= MaxUsers
               /\ users' = users \cup {inserted}
               /\ nextUserId' = nextUserId + 1
               /\ Respond(p, call @@ [status |-> 201,
                            body |-> WithoutPassword(inserted) @@ [id |-> nextUserId]])
  /\ UNCHANGED <<resumes, nextResumeId>>

\* (mutant) login that looks the email up and never compares the password
LoginEmailOnly(p) ==
  /\ Free(p)
  /\ \E email \in Emails, password \in LoginPasswords :
       LET call == [op |-> "login", email |-> email, password |-> password]
           found == FindUsersByEmail(email)
       IN IF found = {}
          THEN Respond(p, call @@ [status |-> 401,
                          message |-> "Invalid email or password"])
          ELSE \E user \in found :
                 Respond(p, call @@ [status |-> 200,
                            body |-> WithoutPassword(user) @@ [id |-> user._id]])
  /\ UNCHANGED <<users, resumes, nextUserId, nextResumeId>>

\* POST /api/users/login
Login(p) ==
  /\ Free(p)
  /\ \E email \in Emails, password \in LoginPasswords :
       LET call == [op |-> "login", email |-> email, password |-> password]
           found == FindUsersByEmail(email)
       IN IF found = {}
          THEN Respond(p, call @@ [status |-> 401,
                          message |-> "Invalid email or password"])
          ELSE \E user \in found :
                 IF ~BcryptCompare(password, user.password)
                 THEN Respond(p, call @@ [status |-> 401,
                                 message |-> "Invalid email or password"])
                 ELSE Respond(p, call @@ [status |-> 200,
                                 body |-> WithoutPassword(user) @@ [id |-> user._id]])
  /\ UNCHANGED <<users, resumes, nextUserId, nextResumeId>>

\* ------------------------------------------------------------ resumes
\* (mutant) an insert that hands out the lowest identifier not in the
\* collection, so that the identifier of a deleted resume comes back
SaveResumeReusingId(p, userId) ==
  /\ Free(p)
  /\ nextResumeId <= MaxResumes
  /\ \E fileName \in FileNames, now \in Times :
       LET free == {i \in 1..MaxResumes : FindResumesById(i) = {}}
           lowest == CHOOSE i \in free : \A j \in free : i <= j
           inserted == [userId |-> userId, fileName |-> fileName,
                        description |-> "description", fileContent |-> "content",
                        uploadedAt |-> now, _id |-> lowest]
       IN /\ resumes' = resumes \cup {inserted}
          /\ nextResumeId' = nextResumeId + 1
          /\ Respond(p, [op |-> "saveResume", status |-> 201,
                         body |-> inserted @@ [id |-> lowest]])
  /\ UNCHANGED <<users, nextUserId>>

\* insertOne(newResume) and the response of POST /api/resumes; userId is
\* stored as the body gives it
SaveResumeHandler(p, userId) ==
  /\ Free(p)
  /\ nextResumeId <= MaxResumes
  /\ \E fileName \in FileNames, now \in Times :
       LET newResume == [userId |-> userId, fileName |-> fileName,
                         description |-> "description", fileContent |-> "content",
                         uploadedAt |-> now]
           inserted == newResume @@ [_id |-> nextResumeId]
       IN /\ resumes' = resumes \cup {inserted}
          /\ nextResumeId' = nextResumeId + 1
          /\ Respond(p, [op |-> "saveResume", status |-> 201,
                         body |-> inserted @@ [id |-> nextResumeId]])
  /\ UNCHANGED <<users, nextUserId>>

\* POST /api/resumes with the id of a user, who may exist or not
SaveResume(p) ==
  \E userId \in OwnerIds :
    SaveResumeHandler(p, userId)

\* POST /api/resumes with a userId that is no ObjectId at all
SaveResumeInherited(p) ==
  \E userId \in InheritedKeys :
    SaveResumeHandler(p, userId)

\* (mutant) a result whose matchedCount counts the documents modified
UpdateResultModified(id, after) ==
  [matchedCount |-> Cardinality(FindResumesById(id) \ after),
   modifiedCount |-> Cardinality(FindResumesById(id) \ after)]

\* the result the driver returns for resumes.updateOne({ _id: id }, ...), the
\* collection being `after` once it is applied
UpdateResult(id, after) ==
  [matchedCount |-> Cardinality(FindResumesById(id)),
   modifiedCount |-> Cardinality(FindResumesById(id) \ after)]

\* updateOne({ _id }, { $set: { archived: true, archivedAt: new Date() } }) and
\* the response, shared by the user's and the admin's archive routes
ArchiveHandler(p, id, now) ==
  /\ Free(p)
  /\ IF ObjectIdThrows(id)
     THEN /\ Respond(p, [op |-> "archive", id |-> id, status |-> 500,
                         message |-> "Server error while archiving resume"])
          /\ UNCHANGED resumes
     ELSE LET after == {IF r._id = id THEN SetArchived(r, now) ELSE r : r \in resumes}
              result == UpdateResult(id, after)
          IN /\ resumes' = after
             /\ IF result.matchedCount = 0
                THEN Respond(p, [op |-> "archive", id |-> id, status |-> 404,
                                 message |-> "Resume not found"])
                ELSE Respond(p, [op |-> "archive", id |-> id, status |-> 200,
                                 message |-> "Resume archived successfully",
                                 result |-> result])
  /\ UNCHANGED <<users, nextUserId, nextResumeId>>

\* PUT /api/resumes/:id/archive
Archive(p) ==
  \E id \in ResumeIdParams, now \in Times :
    ArchiveHandler(p, id, now)

\* PUT /api/admin/resumes/:id/archive
AdminArchive(p) ==
  \E id \in ResumeIdParams, now \in Times :
    ArchiveHandler(p, id, now)

\* PUT /api/resumes/:id/restore
Restore(p) ==
  /\ Free(p)
  /\ \E id \in ResumeIdParams :
       IF ObjectIdThrows(id)
       THEN /\ Respond(p, [op |-> "restore", id |-> id, status |-> 500,
                           message |-> "Server error while restoring resume"])
            /\ UNCHANGED resumes
       ELSE LET after == {IF r._id = id THEN UnsetArchived(r) ELSE r : r \in resumes}
                result == UpdateResult(id, after)
            IN /\ resumes' = after
               /\ IF result.matchedCount = 0
                  THEN Respond(p, [op |-> "restore", id |-> id, status |-> 404,
                                   message |-> "Resume not found"])
                  ELSE Respond(p, [op |-> "restore", id |-> id, status |-> 200,
                                   message |-> "Resume restored successfully",
                                   result |-> result])
  /\ UNCHANGED <<users, nextUserId, nextResumeId>>

\* (mutant) a delete route that archives the resume instead of removing it
DeleteHandlerSoft(p, id, okMessage) ==
  /\ Free(p)
  /\ IF ObjectIdThrows(id)
     THEN /\ Respond(p, [op |-> "delete", id |-> id, status |-> 500,
                         message |-> "Server error while deleting resume"])
          /\ UNCHANGED resumes
     ELSE /\ resumes' = {IF r._id = id THEN SetArchived(r, 1) ELSE r : r \in resumes}
          /\ IF FindResumesById(id) = {}
             THEN Respond(p, [op |-> "delete", id |-> id, status |-> 404,
                              message |-> "Resume not found"])
             ELSE Respond(p, [op |-> "delete", id |-> id, status |-> 200,
                              message |-> okMessage])
  /\ UNCHANGED <<users, nextUserId, nextResumeId>>

\* deleteOne({ _id }) and the response, shared by the user's and the admin's
\* delete routes
DeleteHandler(p, id, okMessage) ==
  /\ Free(p)
  /\ IF ObjectIdThrows(id)
     THEN /\ Respond(p, [op |-> "delete", id |-> id, status |-> 500,
                         message |-> "Server error while deleting resume"])
          /\ UNCHANGED resumes
     ELSE LET deletedCount == Cardinality(FindResumesById(id))
          IN /\ resumes' = resumes \ FindResumesById(id)
             /\ IF deletedCount = 0
                THEN Respond(p, [op |-> "delete", id |-> id, status |-> 404,
                                 message |-> "Resume not found"])
                ELSE Respond(p, [op |-> "delete", id |-> id, status |-> 200,
                                 message |-> okMessage])
  /\ UNCHANGED <<users, nextUserId, nextResumeId>>

\* DELETE /api/resumes/:id
PermanentDelete(p) ==
  \E id \in ResumeIdParams :
    DeleteHandler(p, id, "Resume deleted permanently")

\* DELETE /api/admin/resumes/:id
AdminDelete(p) ==
  \E id \in ResumeIdParams :
    DeleteHandler(p, id, "Resume deleted successfully")

\* ------------------------------------------------------------ admin accounts
\* (mutant) the startup routine without the existence check
BootstrapNoCheck(p) ==
  /\ Free(p)
  /\ Await(p, [op |-> "bootstrap", pc |-> "insert"])
  /\ UNCHANGED <<users, resumes, nextUserId, nextResumeId>>

\* initializeAdmin, up to the await of findOne({ role: 'admin' }); it sends no
\* response: its console.log line stands for one
Bootstrap(p) ==
  /\ Free(p)
  /\ IF FindAdmins # {}
     THEN Respond(p, [op |-> "bootstrap", status |-> 0,
                      message |-> "Admin user already exists"])
     ELSE Await(p, [op |-> "bootstrap", pc |-> "insert"])
  /\ UNCHANGED <<users, resumes, nextUserId, nextResumeId>>

\* ... bcrypt.hash('admin123'), insertOne and the log line
BootstrapInsert(p) ==
  /\ req[p].op = "bootstrap" /\ req[p].pc = "insert"
  /\ \E salt \in Salts, now \in Times :
       LET admin == [name |-> DefaultAdminName, email |-> DefaultAdminEmail,
                     password |-> BcryptHash(DefaultAdminPassword, salt),
                     role |-> "admin", createdAt |-> now]
       IN IF DuplicateKey(admin)
          THEN /\ Respond(p, [op |-> "bootstrap", status |-> 0,
                              message |-> "Admin initialization error"])
               /\ UNCHANGED <<users, nextUserId>>
          ELSE /\ nextUserId <= MaxUsers
               /\ users' = users \cup {admin @@ [_id |-> nextUserId]}
               /\ nextUserId' = nextUserId + 1
               /\ Respond(p, [op |-> "bootstrap", status |-> 0,
                              message |-> "Admin user created successfully"])
  /\ UNCHANGED <<resumes, nextResumeId>>

\* GET /api/admin/status
AdminStatus == [adminExists |-> FindAdmins # {},
                message |-> IF FindAdmins # {} THEN "Admin user exists"
                            ELSE "No admin user found"]

\* POST /api/admin/create, up to the await of findOne({ role: 'admin' }); the
\* slot keeps the fields as the insert will use them (name || 'Admin User', ...)
CreateAdmin(p) ==
  /\ Free(p)
  /\ \E email \in Emails \cup {Absent}, password \in Passwords \cup {Absent},
        name \in Names \cup {Absent} :
       IF FindAdmins # {}
       THEN Respond(p, [op |-> "createAdmin", status |-> 400,
                        message |-> "Admin user already exists"])
       ELSE Await(p, [op |-> "createAdmin", pc |-> "insert",
                      name |-> OrDefault(name, DefaultAdminName),
                      email |-> OrDefault(email, DefaultAdminEmail),
                      password |-> OrDefault(password, DefaultAdminPassword)])
  /\ UNCHANGED <<users, resumes, nextUserId, nextResumeId>>

\* ... bcrypt.hash, insertOne and the response
CreateAdminInsert(p) ==
  /\ req[p].op = "createAdmin" /\ req[p].pc = "insert"
  /\ \E salt \in Salts, now \in Times :
       LET call == [op |-> "createAdmin"]
           admin == [name |-> req[p].name, email |-> req[p].email,
                     password |-> BcryptHash(req[p].password, salt),
                     role |-> "admin", createdAt |-> now]
       IN IF DuplicateKey(admin)
          THEN /\ Respond(p, call @@ [status |-> 500,
                            message |-> "Server error while creating admin user"])
               /\ UNCHANGED <<users, nextUserId>>
          ELSE /\ nextUserId <= MaxUsers
               /\ users' = users \cup {admin @@ [_id |-> nextUserId]}
               /\ nextUserId' = nextUserId + 1
               /\ Respond(p, call @@ [status |-> 201,
                            body |-> [message |-> "Admin user created successfully",
                                      id |-> nextUserId,
                                      email |-> req[p].email]])
  /\ UNCHANGED <<resumes, nextResumeId>>

\* ------------------------------------------------------------ cascade delete
\* (mutant) the cascade without the admin guard
DeleteUserNoAdminGuard(p) ==
  /\ Free(p)
  /\ \E id \in UserIdParams :
       LET call == [op |-> "deleteUser", id |-> id]
       IN IF ObjectIdThrows(id)
          THEN Respond(p, call @@ [status |-> 500,
                          message |-> "Server error while deleting user"])
          ELSE IF FindUsersById(id) = {}
          THEN Respond(p, call @@ [status |-> 404, message |-> "User not found"])
          ELSE Await(p, call @@ [pc |-> "deleteMany"])
  /\ UNCHANGED <<users, resumes, nextUserId, nextResumeId>>

\* DELETE /api/admin/users/:id, up to the await of deleteMany
DeleteUser(p) ==
  /\ Free(p)
  /\ \E id \in UserIdParams :
       LET call == [op |-> "deleteUser", id |-> id]
       IN IF ObjectIdThrows(id)
          THEN Respond(p, call @@ [status |-> 500,
                          message |-> "Server error while deleting user"])
          ELSE IF FindUsersById(id) = {}
          THEN Respond(p, call @@ [status |-> 404, message |-> "User not found"])
          ELSE \E user \in FindUsersById(id) :
                 IF user.role = "admin"
                 THEN Respond(p, call @@ [status |-> 403,
                                 message |-> "Cannot delete admin users"])
                 ELSE Await(p, call @@ [pc |-> "deleteMany"])
  /\ UNCHANGED <<users, resumes, nextUserId, nextResumeId>>

\* (mutant) the cascade's deleteMany filtering on _id instead of userId
DeleteUserResumesById(p) ==
  /\ req[p].op = "deleteUser" /\ req[p].pc = "deleteMany"
  /\ resumes' = resumes \ FindResumesById(req[p].id)
  /\ Await(p, [req[p] EXCEPT !.pc = "deleteOne"]
              @@ [deletedCount |-> Cardinality(FindResumesById(req[p].id))])
  /\ UNCHANGED <<users, nextUserId, nextResumeId>>

\* (mutant) a cascade that deletes the user before the user's resumes
DeleteUserRecordFirst(p) ==
  /\ req[p].op = "deleteUser" /\ req[p].pc = "deleteMany"
  /\ users' = users \ FindUsersById(req[p].id)
  /\ Await(p, [req[p] EXCEPT !.pc = "deleteOne"]
              @@ [deletedCount |-> Cardinality(FindResumesByUserId(req[p].id))])
  /\ UNCHANGED <<resumes, nextUserId, nextResumeId>>

\* ... resumes.deleteMany({ userId: id }), up to the await of deleteOne
DeleteUserResumes(p) ==
  /\ req[p].op = "deleteUser" /\ req[p].pc = "deleteMany"
  /\ resumes' = resumes \ FindResumesByUserId(req[p].id)
  /\ Await(p, [req[p] EXCEPT !.pc = "deleteOne"]
              @@ [deletedCount |-> Cardinality(FindResumesByUserId(req[p].id))])
  /\ UNCHANGED <<users, nextUserId, nextResumeId>>

\* ... users.deleteOne({ _id }) and the response
DeleteUserRecord(p) ==
  /\ req[p].op = "deleteUser" /\ req[p].pc = "deleteOne"
  /\ LET call == [op |-> "deleteUser", id |-> req[p].id]
     IN IF FindUsersById(req[p].id) = {}
        THEN /\ Respond(p, call @@ [status |-> 404, message |-> "User not found"])
             /\ UNCHANGED users
        ELSE /\ users' = users \ FindUsersById(req[p].id)
             /\ Respond(p, call @@ [status |-> 200,
                          message |-> "User and all associated resumes deleted successfully",
                          deletedResumes |-> req[p].deletedCount])
  /\ UNCHANGED <<resumes, nextUserId, nextResumeId>>

\* ------------------------------------------------------------ process failure
\* The server process dies: every handler waiting at an await is lost with
\* what it had read, and the store keeps what was written.  `response` notes
\* the handlers lost.
Crash ==
  /\ \E p \in Procs : ~Free(p)
  /\ req' = [p \in Procs |-> Idle]
  /\ response' = [op |-> "crash", status |-> 0, lost |-> req]
  /\ UNCHANGED <<users, resumes, nextUserId, nextResumeId>>

\* ------------------------------------------------------------ queries
\* cursor.sort({ key: -1 }).toArray()
RECURSIVE SortDesc(_, _)
SortDesc(docs, key) ==
  IF docs = {} THEN <<>>
  ELSE LET top == CHOOSE d \in docs :
                    \A e \in docs : (key \in DOMAIN e /\ key \in DOMAIN d) => e[key] <= d[key]
       IN <<top>> \o SortDesc(docs \ {top}, key)

\* resumes.map(resume => ({ ...resume, id: resume._id }))
WithId(list) == [i \in 1..Len(list) |-> list[i] @@ [id |-> list[i]._id]]

\* GET /api/users/:userId/resumes
ListActive(userId) ==
  WithId(SortDesc({r \in resumes : r.userId = userId /\ NotArchived(r)}, "uploadedAt"))

\* GET /api/users/:userId/resumes/archived
ListArchived(userId) ==
  WithId(SortDesc({r \in resumes : r.userId = userId /\ IsArchived(r)}, "archivedAt"))

\* Object.prototype.constructor, the function Object: its name is "Object"
\* and it has no email
ObjectConstructor == [name |-> "Object"]

\* usersMap[resume.userId] || { name: 'Unknown User', email: 'Unknown Email' }
\* usersMap is a plain object: a key it does not own is looked up in
\* Object.prototype, and what is found there is truthy
UsersMapLookup(usersRead, key) ==
  IF \E u \in usersRead : u._id = key
  THEN CHOOSE u \in usersRead : u._id = key
  ELSE IF key \in InheritedKeys
  THEN ObjectConstructor
  ELSE [name |-> "Unknown User", email |-> "Unknown Email"]

\* { ...resume, id, userName: user.name, userEmail: user.email } as res.json
\* serialises it: a field whose value is undefined is left out
WithOwner(resume, user) ==
  resume @@ [f \in {"id", "userName"} \cup
                     (IF "email" \in DOMAIN user THEN {"userEmail"} ELSE {}) |->
               IF f = "id" THEN resume._id
               ELSE IF f = "userName" THEN user.name
               ELSE user.email]

\* GET /api/admin/resumes: the join of the resumes read with the users read
ListAllActiveWithOwners(resumesRead, usersRead) ==
  LET list == SortDesc({r \in resumesRead : NotArchived(r)}, "uploadedAt")
  IN [i \in 1..Len(list) |-> WithOwner(list[i], UsersMapLookup(usersRead, list[i].userId))]

\* GET /api/admin/resumes, up to the await of users.find({}): the resumes
\* are read first
ListAll(p) ==
  /\ Free(p)
  /\ Await(p, [op |-> "listAll", pc |-> "users",
                resumes |-> {r \in resumes : NotArchived(r)}])
  /\ UNCHANGED <<users, resumes, nextUserId, nextResumeId>>

\* ... users.find({}).toArray(), the join and the response
ListAllJoin(p) ==
  /\ req[p].op = "listAll" /\ req[p].pc = "users"
  /\ Respond(p, [op |-> "listAll", status |-> 200,
                  body |-> ListAllActiveWithOwners(req[p].resumes, users)])
  /\ UNCHANGED <<users, resumes, nextUserId, nextResumeId>>

\* GET /api/admin/users
ListUsers ==
  {WithoutPassword(u) @@ [id |-> u._id] : u \in {v \in users : v.role # "admin"}}

\* GET /api/admin/users
AdminListUsers(p) ==
  /\ Free(p)
  /\ Respond(p, [op |-> "listUsers", status |-> 200, body |-> ListUsers])
  /\ UNCHANGED <<users, resumes, nextUserId, nextResumeId>>

\* ------------------------------------------------------------ specifications
AccountStep(p) ==
  \/ Register(p)
  \/ RegisterInsert(p)
  \/ Login(p)
  \/ Bootstrap(p)
  \/ BootstrapInsert(p)
  \/ CreateAdmin(p)
  \/ CreateAdminInsert(p)

ResumeStep(p) ==
  \/ SaveResume(p)
  \/ Archive(p)
  \/ AdminArchive(p)
  \/ Restore(p)
  \/ PermanentDelete(p)
  \/ AdminDelete(p)

CascadeStep(p) ==
  \/ DeleteUser(p)
  \/ DeleteUserResumes(p)
  \/ DeleteUserRecord(p)

ListStep(p) ==
  \/ ListAll(p)
  \/ ListAllJoin(p)
  \/ AdminListUsers(p)

Next ==
  \E p \in Procs :
    \/ AccountStep(p)
    \/ ResumeStep(p)
    \/ SaveResumeInherited(p)
    \/ CascadeStep(p)
    \/ ListStep(p)
    \/ Crash

Spec == Init /\ [][Next]_vars

\* The specifications below each leave out operations that cannot bear
\* on what is checked under them: the resume routes never read or write users,
\* and login and the admin routes never read or write resumes.

\* Accounts: every operation on users; no resume is ever saved.
NextAccounts == \E p \in Procs : AccountStep(p) \/ CascadeStep(p)

SpecAccounts == Init /\ [][NextAccounts]_vars

\* The resume lifecycle, with registered users as owners and the cascade.
NextResumes ==
  \E p \in Procs :
    \/ Register(p)
    \/ RegisterInsert(p)
    \/ ResumeStep(p)
    \/ CascadeStep(p)

SpecResumes == Init /\ [][NextResumes]_vars

\* The resume routes alone, with registered users as owners.  The cascade's
\* deleteMany removes whole resume documents, as the two delete routes do
\* one at a time, so it adds no resumes collection these routes do not reach.
NextLifecycle ==
  \E p \in Procs :
    \/ Register(p)
    \/ RegisterInsert(p)
    \/ ResumeStep(p)

SpecLifecycle == Init /\ [][NextLifecycle]_vars

\* Accounts where admins are made through POST /api/admin/create alone.
NextManualAdmin ==
  \E p \in Procs :
    \/ Register(p)
    \/ RegisterInsert(p)
    \/ Login(p)
    \/ CreateAdmin(p)
    \/ CreateAdminInsert(p)
    \/ CascadeStep(p)

SpecManualAdmin == Init /\ [][NextManualAdmin]_vars

\* The cascade over users and admins owning active and archived resumes.
NextCascade ==
  \E p \in Procs :
    \/ Register(p)
    \/ RegisterInsert(p)
    \/ Bootstrap(p)
    \/ BootstrapInsert(p)
    \/ SaveResume(p)
    \/ Archive(p)
    \/ CascadeStep(p)

SpecCascade == Init /\ [][NextCascade]_vars

\* The admin's list of resumes over uploads with any userId, while owners
\* are registered and deleted.
NextAdminLists ==
  \E p \in Procs :
    \/ Register(p)
    \/ RegisterInsert(p)
    \/ SaveResume(p)
    \/ SaveResumeInherited(p)
    \/ CascadeStep(p)
    \/ ListAll(p)
    \/ ListAllJoin(p)

SpecAdminLists == Init /\ [][NextAdminLists]_vars

\* Every route that answers with user data, over users and an admin.
NextResponses ==
  \E p \in Procs :
    \/ Register(p)
    \/ RegisterInsert(p)
    \/ Login(p)
    \/ Bootstrap(p)
    \/ BootstrapInsert(p)
    \/ SaveResume(p)
    \/ ListStep(p)

SpecResponses == Init /\ [][NextResponses]_vars

\* Resumes removed by the delete route and by the cascade, and the routes
\* that address a resume by its identifier afterwards.
NextTerminal ==
  \E p \in Procs :
    \/ Register(p)
    \/ RegisterInsert(p)
    \/ SaveResume(p)
    \/ Archive(p)
    \/ Restore(p)
    \/ PermanentDelete(p)
    \/ CascadeStep(p)

SpecTerminal == Init /\ [][NextTerminal]_vars

\* The three ways a user document is inserted, and login; none is removed.
NextCreation ==
  \E p \in Procs : AccountStep(p)

SpecCreation == Init /\ [][NextCreation]_vars

\* The cascade over users owning resumes, in a process that may die.
NextCrash ==
  \/ \E p \in Procs :
       \/ Register(p)
       \/ RegisterInsert(p)
       \/ SaveResume(p)
       \/ CascadeStep(p)
  \/ Crash

SpecCrash == Init /\ [][NextCrash]_vars

\* ------------------------------------------------------------ claims
\* the step just taken is slot p's deleteMany / deleteOne of a cascade
IsDeleteManyStep(p) ==
  req[p].op = "deleteUser" /\ req[p].pc = "deleteMany" /\ req'[p] # req[p]

IsDeleteOneStep(p) ==
  req[p].op = "deleteUser" /\ req[p].pc = "deleteOne" /\ req'[p] # req[p]

\* C1: a cascade on a non-admin user removes, in its deleteMany, exactly the
\* resumes whose userId is that user (active or archived) and nothing else,
\* counts them, then removes exactly that user record and reports the count.
C1_CascadeRemovesOwnedAndUser ==
  [][\A p \in Procs :
       /\ IsDeleteManyStep(p) =>
            /\ resumes' = {r \in resumes : r.userId # req[p].id}
            /\ users' = users
            /\ req'[p].pc = "deleteOne"
            /\ req'[p].deletedCount =
                 Cardinality({r \in resumes : r.userId = req[p].id})
       /\ (IsDeleteOneStep(p) /\ response'.status = 200) =>
            /\ \E u \in users : u._id = req[p].id /\ u.role # "admin"
            /\ users' = {u \in users : u._id # req[p].id}
            /\ resumes' = resumes
            /\ response'.deletedResumes = req[p].deletedCount
  ]_vars

\* a cascade has just reported success with a resume removed, while another
\* user and that user's archived resume remain
C1_Witness ==
  /\ response.op = "deleteUser"
  /\ response.status = 200
  /\ response.deletedResumes >= 1
  /\ \A u \in users : u._id # response.id
  /\ \E u \in users : \E r \in resumes : r.userId = u._id /\ "archived" \in DOMAIN r
  /\ \A r \in resumes : r.userId # response.id

\* C2: a cascade request naming an admin answers 403 and changes neither
\* collection.
C2_AdminCascadeForbidden ==
  [][(/\ response'.op = "deleteUser"
      /\ \E u \in users : u._id = response'.id /\ u.role = "admin")
     => (/\ response'.status = 403
         /\ users' = users
         /\ resumes' = resumes)
  ]_vars

\* a cascade on an admin who owns a resume has just been refused
C2_Witness ==
  /\ response.op = "deleteUser"
  /\ response.status = 403
  /\ \E u \in users : u._id = response.id /\ u.role = "admin"
  /\ \E r \in resumes : r.userId = response.id

C4_ArchiveThenRestoreIsIdentity ==
  [][(response'.op \in {"archive", "restore"} /\ response'.status = 200) =>
       \E r \in resumes :
         /\ r._id = response'.id
         /\ \E t \in resumes' :
              /\ resumes' = (resumes \ {r}) \cup {t}
              /\ \A f \in DOMAIN r \ {"archived", "archivedAt"} :
                   f \in DOMAIN t /\ t[f] = r[f]
              /\ response'.op = "archive" =>
                   DOMAIN t = DOMAIN r \cup {"archived", "archivedAt"}
              /\ response'.op = "restore" =>
                   DOMAIN t = DOMAIN r \ {"archived", "archivedAt"}
  ]_vars

\* a Restore has just removed the markers an Archive had set
C4_Witness ==
  /\ response.op = "restore"
  /\ response.status = 200
  /\ response.result.modifiedCount = 1
  /\ \E r \in resumes : r._id = response.id /\ DOMAIN r \cap {"archived", "archivedAt"} = {}

\* the _id values in a list
Ids(list) == {list[i]._id : i \in 1..Len(list)}

\* C5: for every user id, ListActive holds exactly the user's resumes whose
\* archived field is not true, ListArchived exactly those whose archived field
\* is true, and the two split the user's resumes.
C5_ListsSplitByArchivedFlag ==
  \A userId \in OwnerIds :
    LET mine == {r \in resumes : r.userId = userId}
        flagged == {r \in mine : "archived" \in DOMAIN r /\ r.archived = TRUE}
    IN /\ Ids(ListActive(userId)) = {r._id : r \in mine \ flagged}
       /\ Ids(ListArchived(userId)) = {r._id : r \in flagged}
       /\ Ids(ListActive(userId)) \cap Ids(ListArchived(userId)) = {}
       /\ Ids(ListActive(userId)) \cup Ids(ListArchived(userId)) = {r._id : r \in mine}
       /\ Len(ListActive(userId)) + Len(ListArchived(userId)) = Cardinality(mine)

\* one user with a resume in each list
C5_Witness ==
  \E userId \in OwnerIds :
    Len(ListActive(userId)) = 1 /\ Len(ListArchived(userId)) = 1

\* C6: a successful PermanentDelete removes exactly the named resume, which is
\* then in no list.
C6_DeletedResumeInNoList ==
  [][(response'.op = "delete" /\ response'.status = 200) =>
       /\ \E r \in resumes : r._id = response'.id /\ resumes' = resumes \ {r}
       /\ \A userId \in OwnerIds :
            /\ response'.id \notin Ids(ListActive(userId))'
            /\ response'.id \notin Ids(ListArchived(userId))'
       /\ response'.id \notin Ids(ListAllActiveWithOwners(resumes', users'))
  ]_vars

\* a resume has just been deleted and another, archived, remains
C6_Witness ==
  /\ response.op = "delete"
  /\ response.status = 200
  /\ \E r \in resumes : "archived" \in DOMAIN r

\* C7: a RegisterUser that starts when a user with its email exists answers
\* 400 at once and leaves users unchanged: it never goes on to the insert.
C7_SecondRegistrationConflicts ==
  [][/\ \A p \in Procs :
          (req[p].pc = "idle" /\ req'[p].op = "register") =>
            ~ \E u \in users : u.email = req'[p].email
     /\ (response'.op = "register" /\ req' = req) =>
          /\ \E u \in users : u.email = response'.email
          /\ response'.status = 400
          /\ users' = users
  ]_vars

\* a registration has just been refused for the email of a registered user
C7_Witness ==
  /\ response.op = "register"
  /\ response.status = 400
  /\ \E u \in users : u.email = response.email /\ u.role = "user"

\* C8: where admins are made through CreateAdminManually alone, at most one
\* admin ever exists, whatever the overlap of the requests.
C8_AtMostOneManualAdmin == Cardinality(FindAdmins) <= 1

\* C9: a run of EnsureAdminBootstrap that starts once an earlier run has
\* found or created an admin finds the admin and inserts nothing.
C9_SecondBootstrapInsertsNothing ==
  [][(/\ response.op = "bootstrap"
      /\ response.message \in {"Admin user created successfully",
                               "Admin user already exists"})
     => /\ \A p \in Procs : ~ (req[p].pc = "idle" /\ req'[p].op = "bootstrap")
        /\ (response'.op = "bootstrap" /\ req' = req) =>
             /\ response'.message = "Admin user already exists"
             /\ users' = users
  ]_vars

\* a second run has just found the admin the first run created
C9_Witness ==
  /\ response.op = "bootstrap"
  /\ response.message = "Admin user already exists"
  /\ \E u \in users : u.role = "admin" /\ u.email = DefaultAdminEmail
                      /\ u.name = DefaultAdminName
  /\ Cardinality(FindAdmins) = 1

\* C10: a login answers 200 exactly when a user with the email exists whose
\* stored hash verifies against the password; every other login answers 401
\* with one and the same message; no login changes the store.
C10_LoginIffHashVerifies ==
  [][response'.op = "login" =>
       /\ response'.status = 200 <=>
            \E u \in users : /\ u.email = response'.email
                             /\ BcryptCompare(response'.password, u.password)
       /\ response'.status # 200 =>
            /\ response'.status = 401
            /\ response'.message = "Invalid email or password"
       /\ users' = users
       /\ resumes' = resumes
  ]_vars

\* a login has just failed on a wrong password for an existing email
C10_Witness ==
  /\ response.op = "login"
  /\ response.status = 401
  /\ \E u \in users : u.email = response.email

\* C11: in every answer of GET /api/admin/resumes, a resume whose userId is
\* the id of no user carries userName "Unknown User" and userEmail
\* "Unknown Email", and a resume whose owner exists carries that owner's name
\* and email.
C11_DanglingOwnerIsUnknown ==
  response.op = "listAll" =>
    \A i \in 1..Len(response.body) :
      LET row == response.body[i]
      IN IF FindUsersById(row.userId) = {}
         THEN /\ row.userName = "Unknown User"
              /\ "userEmail" \in DOMAIN row
              /\ row.userEmail = "Unknown Email"
         ELSE \A u \in FindUsersById(row.userId) :
                /\ row.userName = u.name
                /\ "userEmail" \in DOMAIN row
                /\ row.userEmail = u.email

\* C12: a Restore of an existing resume that carries neither archive marker
\* answers 200, not 404, and leaves every resume and every user as it was.
C12_RestoreNeverArchivedIsNoOp ==
  [][(/\ response'.op = "restore"
      /\ \E r \in resumes :
           r._id = response'.id /\ DOMAIN r \cap {"archived", "archivedAt"} = {})
     => /\ response'.status = 200
        /\ response'.message = "Resume restored successfully"
        /\ resumes' = resumes
        /\ users' = users
  ]_vars

\* a Restore has just succeeded without modifying the resume it matched,
\* while another resume is archived
C12_Witness ==
  /\ response.op = "restore"
  /\ response.status = 200
  /\ response.result.matchedCount = 1
  /\ response.result.modifiedCount = 0
  /\ \E r \in resumes : r._id # response.id /\ IsArchived(r)

\* C13: no record sent in a response has a password field: not the user
\* answered by registration or login, not a user of the admin's user list,
\* not a row of the admin's resume list.
C13_NoPasswordInResponses ==
  /\ (response.op \in {"register", "login"} /\ "body" \in DOMAIN response) =>
       "password" \notin DOMAIN response.body
  /\ response.op = "listUsers" =>
       \A u \in response.body : "password" \notin DOMAIN u
  /\ response.op = "listAll" =>
       \A i \in 1..Len(response.body) : "password" \notin DOMAIN response.body[i]

\* the admin's user list has just answered with a user whose stored
\* document holds a password hash
C13_Witness ==
  /\ response.op = "listUsers"
  /\ \E row \in response.body :
       \E u \in users : u._id = row.id /\ "password" \in DOMAIN u

\* C14: an identifier the store has handed out to a resume that is no longer
\* in the collection (removed by a delete route or by a cascade) never names
\* a resume again, and every Archive, Restore or PermanentDelete addressed
\* to it answers 404 and changes no resume.
C14_DeletedIsTerminal ==
  [][\A id \in 1..(nextResumeId - 1) :
       FindResumesById(id) = {} =>
         /\ {r \in resumes' : r._id = id} = {}
         /\ (response'.op \in {"archive", "restore", "delete"} /\ response'.id = id) =>
              /\ response'.status = 404
              /\ response'.message = "Resume not found"
              /\ resumes' = resumes
  ]_vars

\* a Restore addressed to an identifier that was handed out and is no longer
\* in the collection has just answered 404, while a later upload exists
C14_Witness ==
  /\ response.op = "restore"
  /\ response.status = 404
  /\ response.id < nextResumeId
  /\ response.id >= 1
  /\ \E r \in resumes : r._id > response.id

\* C15: whatever the interleaving of registrations, manual admin creations
\* and startup runs, no two users share an email; a registration answers 201
\* only if no user had its email before its insert, so of two overlapping
\* registrations with one email at most one succeeds.
C15_EmailsUnique ==
  [][/\ \A u, v \in users' : u.email = v.email => u = v
     /\ (response'.op = "register" /\ response'.status = 201) =>
          /\ FindUsersByEmail(response'.email) = {}
          /\ Cardinality({u \in users' : u.email = response'.email}) = 1
  ]_vars

\* of two overlapping registrations with one email, the second insert has
\* just been rejected by the index
C15_Witness ==
  /\ response.op = "register"
  /\ response.status = 500
  /\ \E u \in users : u.email = response.email /\ u.role = "user"

\* C16: a registration turned down because its email is taken answers 400
\* (Conflict), never 500 (StoreFailure); in the model a registration is turned
\* down for no other reason.
C16_DuplicateRegisterIsConflict ==
  (response.op = "register" /\ response.status # 201) =>
    /\ response.status = 400
    /\ response.message = "User with this email already exists"

\* the step just taken is a process failure that struck slot p's cascade
\* between its deleteMany and its deleteOne, after it had removed resumes
IsFailureBetween(p) ==
  /\ response'.op = "crash"
  /\ req[p].op = "deleteUser" /\ req[p].pc = "deleteOne"
  /\ req[p].deletedCount >= 1

C18_NoResumeLeftAtCascadeSuccess ==
  (response.op = "deleteUser" /\ response.status = 200) =>
    FindResumesByUserId(response.id) = {}

\* C19: a cascade that answers 404 has removed nothing: neither the step
\* that answers nor an earlier step of the same request removed a user or a
\* resume.
C19_NotFoundRemovedNothing ==
  [][\A p \in Procs :
       (/\ req[p].op = "deleteUser" /\ req[p].pc = "deleteOne"
        /\ req'[p] = Idle
        /\ response'.op = "deleteUser" /\ response'.status = 404)
       => /\ req[p].deletedCount = 0
          /\ users' = users
          /\ resumes' = resumes
  ]_vars

\* C20: no step removes or alters a user whose role is admin, so once
\* GET /api/admin/status answers adminExists = true it does so ever after.
C20_AdminsNeverRemoved ==
  [][/\ \A u \in users : u.role = "admin" => u \in users'
     /\ AdminStatus.adminExists => AdminStatus'.adminExists
  ]_vars

\* a cascade has just deleted a user while an admin is registered
C20_Witness ==
  /\ response.op = "deleteUser"
  /\ response.status = 200
  /\ AdminStatus.adminExists
  /\ \E u \in users : u.role = "admin" /\ u._id < response.id

====
